---------------------------- MODULE Spec2Model ----------------------------
(***************************************************************************)
(* State-machine model of generate_ir.py: the impulse synthesizer          *)
(* (ms_to_samples, apply_lpf_to_impulse, generate_channel), the container  *)
(* encoder (write_wav) and the driver (generate_ir).                       *)
(*                                                                         *)
(* The program is sequential.  Every function has a frame of variables and *)
(* a position (lpf_pc, gc_pc, ww_pc, ir_pc); a call sets the callee's      *)
(* arguments and position, the caller waits until the callee has returned  *)
(* or raised.  Each specification starts at one entry point, the way a     *)
(* test or a caller would call that function.                              *)
(*                                                                         *)
(* Numbers.  Python floats are modelled in fixed point:                    *)
(*   - a sample value v is the integer v * FxOne (FxOne = 2^16);           *)
(*   - a time in milliseconds is the integer ms * MsScale (1/100 ms);      *)
(*   - the filter coefficient alpha is the integer alpha * AlphaOne.       *)
(* An optional number is a tuple: None is <<>>, the number f is <<f>>.      *)
(***************************************************************************)
EXTENDS Integers, Sequences, FiniteSets

VARIABLES
    entry,          \* the function the environment called
    \* apply_lpf_to_impulse
    lpf_pc, samples, cutoff_hz, sample_rate, alpha, prev, lpf_i,
    lpf_in,         \* history: the items of samples when the call was made
    \* generate_channel
    gc_pc, gain, reflections, is_cross, cross_delay_ms, cross_lpf_freq,
    buf, gc_i,
    \* write_wav
    ww_pc, filepath, channels, ww_rate, ww_i, ww_ch, handle, fs, nwrites,
    \* generate_ir
    ir_pc, preset_name, output_path, p, ch_ll, ch_rr, ch_lr, ch_rl,
    \* history: the calls made so far of apply_lpf_to_impulse,
    \* generate_channel and write_wav
    lpf_calls, gc_calls, ww_calls

lpfVars == <<lpf_pc, samples, cutoff_hz, sample_rate, alpha, prev, lpf_i,
             lpf_in>>
gcVars  == <<gc_pc, gain, reflections, is_cross, cross_delay_ms,
             cross_lpf_freq, buf, gc_i>>
wwVars  == <<ww_pc, filepath, channels, ww_rate, ww_i, ww_ch, handle, fs,
             nwrites>>
irVars  == <<ir_pc, preset_name, output_path, p, ch_ll, ch_rr, ch_lr,
             ch_rl>>
calls   == <<lpf_calls, gc_calls, ww_calls>>
vars    == <<entry, lpfVars, gcVars, wwVars, irVars, calls>>

---------------------------------------------------------------------------
(* Scales of the fixed-point representation.                               *)
FxOne    == 2^16        \* sample value 1.0
MsScale  == 10^2        \* 1 ms
AlphaOne == 2^13        \* alpha = 1.0
None     == <<>>
Some(f)  == <<f>>

(* Module-level constants of the program.                                  *)
SAMPLE_RATE    == 48000
IR_DURATION_MS == 80
NUM_CHANNELS   == 4

(* int(x / y) for y > 0: Python's int() truncates toward zero.             *)
TruncDiv(x, y) == IF x >= 0 THEN x \div y ELSE -((-x) \div y)

(* x / y rounded to the nearest integer, y > 0: the rounding of a float    *)
(* operation, in fixed point.                                              *)
RoundDiv(x, y) == (x + y \div 2) \div y

IR_SAMPLES == TruncDiv(SAMPLE_RATE * IR_DURATION_MS, 1000)

(* len() of a list, which the model holds as a function on 0..len-1.       *)
len(xs) == Cardinality(DOMAIN xs)

(* [v] * n                                                                 *)
Filled(n, v) == [k \in 0..(n - 1) |-> v]

(* Mutant of ms_to_samples: round() in place of int().                     *)
ms_to_samples_round(ms) ==
    IF ms >= 0 THEN RoundDiv(ms * SAMPLE_RATE, 1000 * MsScale)
    ELSE -RoundDiv((-ms) * SAMPLE_RATE, 1000 * MsScale)

(* sample-index conversion: int(ms * SAMPLE_RATE / 1000), ms in 1/100 ms   *)
ms_to_samples(ms) == TruncDiv(ms * SAMPLE_RATE, 1000 * MsScale)

---------------------------------------------------------------------------
(* apply_lpf_to_impulse(samples, cutoff_hz, sample_rate)                   *)

(* rc = 1/(2 pi cutoff), dt = 1/sample_rate, alpha = dt/(rc + dt), which   *)
(* is 2 pi cutoff / (sample_rate + 2 pi cutoff); pi is taken as 22/7.      *)
LpfAlpha(cutoff, rate) ==
    LET num == 44 * cutoff
        den == 7 * rate + 44 * cutoff
    IN  IF den > 0 THEN RoundDiv(num * AlphaOne, den)
        ELSE RoundDiv((-num) * AlphaOne, -den)

(* A float keeps growing values as infinity; in the model a magnitude of   *)
(* FxMax stands for it.                                                    *)
FxMax == 2 * FxOne
FxSat(v) == IF v > FxMax THEN FxMax ELSE IF v < -FxMax THEN -FxMax ELSE v

(* prev + alpha * (x - prev)                                               *)
LpfFilter(a, y, x) == FxSat(y + RoundDiv(a * (x - y), AlphaOne))

(* Mutant of LpfInitialState: the filter state of the call before is kept. *)
LpfInitialState_Carried == prev

(* line 110: prev = 0.0                                                    *)
LpfInitialState == 0

(* lines 107-110: the coefficient and the initial filter state.            *)
LPF_Begin ==
    /\ lpf_pc = "begin"
    /\ alpha' = LpfAlpha(cutoff_hz, sample_rate)
    /\ prev' = LpfInitialState
    /\ lpf_i' = 0
    /\ lpf_pc' = "loop"
    /\ UNCHANGED <<samples, cutoff_hz, sample_rate, lpf_in>>

(* lines 112-113: the loop body at index i, on the pair <<prev, samples>>.  *)
LpfBody(a, st, i) ==
    LET y == LpfFilter(a, st[1], st[2][i])
    IN  <<y, [st[2] EXCEPT ![i] = y]>>

(* lines 111-113: the loop body at the indices lo..hi, in increasing order. *)
RECURSIVE LpfRange(_, _, _, _)
LpfRange(a, st, lo, hi) ==
    IF lo > hi THEN st
    ELSE IF lo = hi THEN LpfBody(a, st, lo)
    ELSE LET mid == (lo + hi) \div 2
             left == LpfRange(a, st, lo, mid)
         IN  IF DOMAIN left[2] = DOMAIN st[2]  \* the list keeps its length
             THEN LpfRange(a, left, mid + 1, hi)
             ELSE left

(* lines 111-113: one iteration of the loop over range(len(samples)).      *)
LPF_Step ==
    /\ lpf_pc = "loop"
    /\ lpf_i < len(samples)
    /\ LET st == LpfBody(alpha, <<prev, samples>>, lpf_i)
       IN  prev' = st[1] /\ samples' = st[2]
    /\ lpf_i' = lpf_i + 1
    /\ UNCHANGED <<lpf_pc, cutoff_hz, sample_rate, alpha, lpf_in>>

(* lines 111-113: the loop from its first iteration to its last, with no   *)
(* state looked at in between.                                             *)
LPF_Loop ==
    /\ lpf_pc = "loop"
    /\ lpf_i = 0
    /\ lpf_i < len(samples)
    /\ LET st == LpfRange(alpha, <<prev, samples>>, 0, len(samples) - 1)
       IN  prev' = st[1] /\ samples' = st[2]
    /\ lpf_i' = len(samples)
    /\ UNCHANGED <<lpf_pc, cutoff_hz, sample_rate, alpha, lpf_in>>

(* line 114: the loop is exhausted, the list is returned.                  *)
LPF_Return ==
    /\ lpf_pc = "loop"
    /\ lpf_i >= len(samples)
    /\ lpf_pc' = "returned"
    /\ UNCHANGED <<samples, cutoff_hz, sample_rate, alpha, prev, lpf_i,
                   lpf_in>>

(* The frame of a function that is not running.                            *)
LpfIdle ==
    /\ lpf_pc = "idle" /\ samples = <<>> /\ cutoff_hz = 0 /\ sample_rate = 0
    /\ alpha = 0 /\ prev = 0 /\ lpf_i = 0 /\ lpf_in = <<>>

---------------------------------------------------------------------------
(* generate_channel(gain, reflections, is_cross, cross_delay_ms,           *)
(*                  cross_lpf_freq)                                        *)

(* Python's list indexing: a negative index counts from the end.           *)
PyIndex(idx, n) == IF idx >= 0 THEN idx ELSE idx + n

(* The subscript raises IndexError.                                        *)
IndexError(idx, n) == PyIndex(idx, n) < 0 \/ PyIndex(idx, n) >= n

(* Python's truth value of cross_lpf_freq: None and 0 are false.           *)
Truthy(x) == x # None /\ x[1] # 0

(* lines 123-125: buf[delay_samples] = gain behind its guard.              *)
PlaceMain(b, idx, g) ==
    IF idx < IR_SAMPLES THEN [b EXCEPT ![PyIndex(idx, len(b))] = g] ELSE b

(* line 131 *)
Polarity(i) == IF i % 2 = 0 THEN 1 ELSE -1

(* lines 130-132: buf[total_delay] += ref_gain * polarity behind its guard *)
PlaceTap(b, idx, i, ref_gain) ==
    IF idx < IR_SAMPLES
    THEN [b EXCEPT ![PyIndex(idx, len(b))] = @ + ref_gain * Polarity(i)]
    ELSE b

(* line 123 *)
MainDelay == IF is_cross THEN ms_to_samples(cross_delay_ms) ELSE 0

(* line 129, for the tap at 0-based position i *)
TapDelay(i) ==
    ms_to_samples(reflections[i + 1][1]
                  + (IF is_cross THEN cross_delay_ms ELSE 0))

(* lines 120-125: the zero buffer and the main impulse.                    *)
GC_Begin ==
    /\ gc_pc = "begin"
    /\ gc_i' = 0
    /\ IF MainDelay < IR_SAMPLES /\ IndexError(MainDelay, IR_SAMPLES)
       THEN /\ buf' = Filled(IR_SAMPLES, 0)
            /\ gc_pc' = "raised"
       ELSE /\ buf' = PlaceMain(Filled(IR_SAMPLES, 0), MainDelay, gain)
            /\ gc_pc' = "taps"
    /\ UNCHANGED <<gain, reflections, is_cross, cross_delay_ms,
                   cross_lpf_freq>>

(* lines 128-132: one iteration of the loop over enumerate(reflections).   *)
GC_Tap ==
    /\ gc_pc = "taps"
    /\ gc_i < Len(reflections)
    /\ IF TapDelay(gc_i) < IR_SAMPLES /\ IndexError(TapDelay(gc_i), IR_SAMPLES)
       THEN /\ gc_pc' = "raised"
            /\ UNCHANGED <<buf, gc_i>>
       ELSE /\ buf' = PlaceTap(buf, TapDelay(gc_i), gc_i,
                               reflections[gc_i + 1][2])
            /\ gc_i' = gc_i + 1
            /\ UNCHANGED gc_pc
    /\ UNCHANGED <<gain, reflections, is_cross, cross_delay_ms,
                   cross_lpf_freq>>

(* line 135: the condition of the head shadow filter.                      *)
FilterWanted == is_cross /\ Truthy(cross_lpf_freq)

(* lines 135-136, condition true: the call of apply_lpf_to_impulse.  The   *)
(* list object itself is passed; it is held in samples during the call.    *)
GC_CallLpf ==
    /\ gc_pc = "taps"
    /\ gc_i >= Len(reflections)
    /\ FilterWanted
    /\ LpfIdle
    /\ gc_pc' = "lpf"
    /\ lpf_calls' = lpf_calls + 1
    /\ lpf_pc' = "begin"
    /\ samples' = buf
    /\ lpf_in' = buf
    /\ cutoff_hz' = cross_lpf_freq[1]
    /\ sample_rate' = SAMPLE_RATE
    /\ buf' = <<>>
    /\ UNCHANGED <<alpha, prev, lpf_i>>
    /\ UNCHANGED <<gain, reflections, is_cross, cross_delay_ms,
                   cross_lpf_freq, gc_i>>

(* line 136: buf = the returned list; line 138: return buf.                *)
GC_LpfReturned ==
    /\ gc_pc = "lpf"
    /\ lpf_pc = "returned"
    /\ buf' = samples
    /\ gc_pc' = "returned"
    /\ lpf_pc' = "idle" /\ samples' = <<>> /\ cutoff_hz' = 0
    /\ sample_rate' = 0 /\ alpha' = 0 /\ prev' = 0 /\ lpf_i' = 0
    /\ lpf_in' = <<>>
    /\ UNCHANGED <<gain, reflections, is_cross, cross_delay_ms,
                   cross_lpf_freq, gc_i, lpf_calls>>

(* line 135, condition false; line 138: return buf.                        *)
GC_SkipLpf ==
    /\ gc_pc = "taps"
    /\ gc_i >= Len(reflections)
    /\ ~FilterWanted
    /\ gc_pc' = "returned"
    /\ UNCHANGED <<gain, reflections, is_cross, cross_delay_ms,
                   cross_lpf_freq, buf, gc_i>>

GcIdle ==
    /\ gc_pc = "idle" /\ gain = 0 /\ reflections = <<>> /\ is_cross = FALSE
    /\ cross_delay_ms = 0 /\ cross_lpf_freq = None /\ buf = <<>>
    /\ gc_i = 0

---------------------------------------------------------------------------
(* write_wav(filepath, channels, sample_rate)                              *)

(* The file system maps a path to the bytes of the file, or to Absent.     *)
Absent == "absent"

(* Number of bits of a positive integer.                                   *)
RECURSIVE BitLen(_)
BitLen(a) == IF a = 0 THEN 0 ELSE 1 + BitLen(a \div 2)

(* a / 2^s rounded to the nearest integer, ties to even: the rounding of   *)
(* the conversion of a double to a 32-bit float.                           *)
RoundHalfEven(a, s) ==
    LET q == a \div (2^s)
        r == a % (2^s)
        h == 2^(s - 1)
    IN  IF r > h \/ (r = h /\ q % 2 = 1) THEN q + 1 ELSE q

(* struct.pack("<f", v): the four bytes, least significant first, of the   *)
(* IEEE 754 single nearest to v.  v = m / FxOne; sign, biased exponent     *)
(* and the 23 stored bits of the 24-bit significand.                       *)
pack_f(m) ==
    IF m = 0 THEN <<0, 0, 0, 0>>
    ELSE
    LET sign == IF m < 0 THEN 1 ELSE 0
        a    == IF m < 0 THEN -m ELSE m
        nb   == BitLen(a)
        sig0 == IF nb <= 24 THEN a * 2^(24 - nb) ELSE RoundHalfEven(a, nb - 24)
        up   == sig0 = 2^24
        sig  == IF up THEN 2^23 ELSE sig0
        e    == (nb - 1) + (IF up THEN 1 ELSE 0) + 127 - BitLen(FxOne - 1)
        frac == sig - 2^23
    IN  << frac % 256,
           (frac \div 256) % 256,
           (e % 2) * 128 + frac \div 65536,
           sign * 128 + e \div 2 >>

(* struct.pack("<I", v), 0 <= v < 2^32                                     *)
pack_I(v) ==
    << v % 256, (v \div 256) % 256, (v \div 65536) % 256, v \div 16777216 >>

(* struct.pack("<H", v), 0 <= v < 2^16                                     *)
pack_H(v) == << v % 256, v \div 256 >>

(* struct.pack("<H", v) raises struct.error                                *)
pack_H_error(v) == v < 0 \/ v > 65535

(* Mutant of data_size: the sample count, not the byte count.              *)
data_size_samples == len(channels[0]) * len(channels)

(* lines 146-151 *)
num_channels    == len(channels)
num_samples     == len(channels[0])
bits_per_sample == 32
byte_rate       == ww_rate * num_channels * (bits_per_sample \div 8)
block_align     == num_channels * (bits_per_sample \div 8)
data_size       == num_samples * block_align

(* The number of f.write calls of the header, lines 155-171.               *)
HeaderWrites == 13

(* The argument of the k-th f.write call of the header (k from 0).         *)
HeaderField(k) ==
    CASE k = 0  -> <<82, 73, 70, 70>>               \* b"RIFF"
      [] k = 1  -> pack_I(36 + data_size)
      [] k = 2  -> <<87, 65, 86, 69>>               \* b"WAVE"
      [] k = 3  -> <<102, 109, 116, 32>>            \* b"fmt "
      [] k = 4  -> pack_I(16)
      [] k = 5  -> pack_H(3)
      [] k = 6  -> pack_H(num_channels)
      [] k = 7  -> pack_I(ww_rate)
      [] k = 8  -> pack_I(byte_rate)
      [] k = 9  -> pack_H(block_align)
      [] k = 10 -> pack_H(bits_per_sample)
      [] k = 11 -> <<100, 97, 116, 97>>             \* b"data"
      [] k = 12 -> pack_I(data_size)

(* struct.pack raises while the argument of the k-th header write is built *)
HeaderFieldError(k) ==
    \/ k = 6 /\ pack_H_error(num_channels)
    \/ k = 9 /\ pack_H_error(block_align)

(* Mutant of HandleAfterWith: no with block, the handle is never closed.   *)
HandleAfterWith_Leaked == handle

(* The state of the handle once the with block of line 153 is left.        *)
HandleAfterWith == "closed"

(* line 153, open(filepath, "wb") succeeds: the file is created or cut to  *)
(* length 0.                                                               *)
WW_Open ==
    /\ ww_pc = "begin"
    /\ handle' = "open"
    /\ fs' = [fs EXCEPT ![filepath] = <<>>]
    /\ ww_pc' = "header"
    /\ UNCHANGED <<filepath, channels, ww_rate, ww_i, ww_ch, nwrites>>

(* line 153, open raises OSError: nothing was opened.                      *)
WW_OpenFail ==
    /\ ww_pc = "begin"
    /\ ww_pc' = "raised"
    /\ UNCHANGED <<filepath, channels, ww_rate, ww_i, ww_ch, handle, fs,
                   nwrites>>

(* lines 155-171: one f.write of the header; struct.error leaves the with  *)
(* block.                                                                  *)
WW_Header ==
    /\ ww_pc = "header"
    /\ handle = "open"
    /\ nwrites < HeaderWrites
    /\ IF HeaderFieldError(nwrites)
       THEN /\ ww_pc' = "raised"
            /\ handle' = HandleAfterWith
            /\ UNCHANGED <<fs, nwrites>>
       ELSE /\ fs' = [fs EXCEPT ![filepath] = @ \o HeaderField(nwrites)]
            /\ nwrites' = nwrites + 1
            /\ UNCHANGED <<ww_pc, handle>>
    /\ UNCHANGED <<filepath, channels, ww_rate, ww_i, ww_ch>>

(* lines 172-173: the header is written, the loops start.                  *)
WW_Loops ==
    /\ ww_pc = "header"
    /\ nwrites = HeaderWrites
    /\ ww_pc' = "data"
    /\ ww_i' = 0
    /\ ww_ch' = 0
    /\ UNCHANGED <<filepath, channels, ww_rate, handle, fs, nwrites>>

(* Mutant of NextIndex: ch is not set back to 0 for the next i.            *)
NextIndex_NoReset(i, ch, n) ==
    IF ch + 1 < n THEN <<i, ch + 1>> ELSE <<i + 1, ch>>

(* The loop indices after the write of (i, ch): ch runs inside i.          *)
NextIndex(i, ch, n) == IF ch + 1 < n THEN <<i, ch + 1>> ELSE <<i + 1, 0>>

(* line 174: one f.write of a sample.                                      *)
WW_Sample ==
    /\ ww_pc = "data"
    /\ handle = "open"
    /\ ww_i < num_samples
    /\ fs' = [fs EXCEPT ![filepath] = @ \o pack_f(channels[ww_ch][ww_i])]
    /\ nwrites' = nwrites + 1
    /\ ww_i' = NextIndex(ww_i, ww_ch, num_channels)[1]
    /\ ww_ch' = NextIndex(ww_i, ww_ch, num_channels)[2]
    /\ UNCHANGED <<ww_pc, filepath, channels, ww_rate, handle>>

(* The f.write calls at which the device may fail are bounded.             *)
MaxFaultWrites == 24

(* The bytes of the next f.write call.                                     *)
NextChunk ==
    IF ww_pc = "header" THEN HeaderField(nwrites)
    ELSE pack_f(channels[ww_ch][ww_i])

(* any f.write raises OSError, after the device took a part of the bytes;  *)
(* the exception leaves the with block and goes to the caller.             *)
WW_WriteFail ==
    /\ ww_pc \in {"header", "data"}
    /\ handle = "open"
    /\ nwrites < MaxFaultWrites
    /\ \/ ww_pc = "header" /\ nwrites < HeaderWrites
                           /\ ~HeaderFieldError(nwrites)
       \/ ww_pc = "data" /\ ww_i < num_samples
    /\ \E m \in 0..(Len(NextChunk) - 1) :
           fs' = [fs EXCEPT ![filepath] = @ \o SubSeq(NextChunk, 1, m)]
    /\ ww_pc' = "raised"
    /\ handle' = HandleAfterWith
    /\ UNCHANGED <<filepath, channels, ww_rate, ww_i, ww_ch, nwrites>>

(* the loops are exhausted: the with block ends, the function returns.     *)
WW_Return ==
    /\ ww_pc = "data"
    /\ ww_i >= num_samples
    /\ handle' = HandleAfterWith
    /\ ww_pc' = "returned"
    /\ UNCHANGED <<filepath, channels, ww_rate, ww_i, ww_ch, fs, nwrites>>

WwIdle ==
    /\ ww_pc = "idle" /\ filepath = "" /\ channels = <<>> /\ ww_rate = 0
    /\ ww_i = 0 /\ ww_ch = 0 /\ handle = "closed" /\ nwrites = 0

---------------------------------------------------------------------------
(* generate_ir(preset_name, output_path)                                   *)

(* A gain literal, given in thousandths, as a sample value.                *)
Fx(milli) == RoundDiv(milli * FxOne, 1000)

(* lines 40-95; delays in 1/100 ms, gains through Fx.                      *)
PRESETS ==
    [ light |->
        [ direct_gain |-> Fx(1000),
          reflections |-> << <<180, Fx(80)>>, <<520, Fx(50)>>,
                             <<1100, Fx(30)>> >>,
          cross_gain |-> Fx(150),
          cross_delay_ms |-> 25,
          cross_lpf_freq |-> Some(3000),
          cross_reflections |-> << <<350, Fx(40)>>, <<800, Fx(20)>> >> ],
      medium |->
        [ direct_gain |-> Fx(1000),
          reflections |-> << <<150, Fx(120)>>, <<380, Fx(90)>>,
                             <<650, Fx(60)>>, <<1020, Fx(40)>>,
                             <<1500, Fx(25)>> >>,
          cross_gain |-> Fx(250),
          cross_delay_ms |-> 30,
          cross_lpf_freq |-> Some(2500),
          cross_reflections |-> << <<280, Fx(60)>>, <<600, Fx(40)>>,
                                   <<1200, Fx(20)>> >> ],
      heavy |->
        [ direct_gain |-> Fx(1000),
          reflections |-> << <<120, Fx(180)>>, <<300, Fx(140)>>,
                             <<550, Fx(100)>>, <<800, Fx(70)>>,
                             <<1200, Fx(50)>>, <<1800, Fx(35)>>,
                             <<2500, Fx(20)>> >>,
          cross_gain |-> Fx(350),
          cross_delay_ms |-> 35,
          cross_lpf_freq |-> Some(2000),
          cross_reflections |-> << <<220, Fx(100)>>, <<500, Fx(60)>>,
                                   <<900, Fx(40)>>, <<1500, Fx(20)>> >> ] ]

(* list(xs): a new list with the same items.                               *)
list(xs) == [k \in DOMAIN xs |-> xs[k]]

(* Mutant of ChannelList: the channels in the order LL, LR, RR, RL.        *)
ChannelList_Reordered(ll, rr, lr, rl) ==
    [c \in 0..(NUM_CHANNELS - 1) |->
        CASE c = 0 -> ll [] c = 1 -> lr [] c = 2 -> rr [] c = 3 -> rl]

(* line 205: the list [ch_ll, ch_rr, ch_lr, ch_rl].                        *)
ChannelList(ll, rr, lr, rl) ==
    [c \in 0..(NUM_CHANNELS - 1) |->
        CASE c = 0 -> ll [] c = 1 -> rr [] c = 2 -> lr [] c = 3 -> rl]

(* Mutant of LookupPreset: an unknown name falls back to medium.           *)
LookupPreset_Default(name) ==
    IF name \in DOMAIN PRESETS THEN Some(PRESETS[name])
    ELSE Some(PRESETS["medium"])

(* lines 178-182: PRESETS[preset_name], or None where ValueError is        *)
(* raised.                                                                 *)
LookupPreset(name) ==
    IF name \in DOMAIN PRESETS THEN Some(PRESETS[name]) ELSE None

(* lines 178-182: p is the preset, or ValueError is raised.                *)
IR_Check ==
    /\ ir_pc = "begin"
    /\ IF LookupPreset(preset_name) = None
       THEN ir_pc' = "raised" /\ p' = p
       ELSE ir_pc' = "ll" /\ p' = LookupPreset(preset_name)[1]
    /\ UNCHANGED <<preset_name, output_path, ch_ll, ch_rr, ch_lr, ch_rl>>
    /\ UNCHANGED calls
    /\ UNCHANGED <<lpfVars, gcVars, wwVars>>

(* the call of generate_channel with the given arguments                   *)
CallChannel(g, r, c, d, f) ==
    /\ GcIdle
    /\ gc_pc' = "begin"
    /\ gain' = g
    /\ reflections' = r
    /\ is_cross' = c
    /\ cross_delay_ms' = d
    /\ cross_lpf_freq' = f
    /\ gc_calls' = gc_calls + 1
    /\ UNCHANGED <<buf, gc_i>>

(* the frame of generate_channel is dropped                                *)
DropChannel ==
    /\ gc_pc' = "idle" /\ gain' = 0 /\ reflections' = <<>>
    /\ is_cross' = FALSE /\ cross_delay_ms' = 0 /\ cross_lpf_freq' = None
    /\ buf' = <<>> /\ gc_i' = 0

(* lines 185-188: generate_channel for L->L, with the defaults of line 117 *)
IR_CallLL ==
    /\ ir_pc = "ll"
    /\ CallChannel(p.direct_gain, p.reflections, FALSE, 0, None)
    /\ ir_pc' = "ll_wait"
    /\ UNCHANGED <<preset_name, output_path, p, ch_ll, ch_rr, ch_lr, ch_rl>>
    /\ UNCHANGED <<lpf_calls, ww_calls>>
    /\ UNCHANGED <<lpfVars, wwVars>>

(* line 185: ch_ll = the returned buffer (an exception goes on up).        *)
IR_GotLL ==
    /\ ir_pc = "ll_wait"
    /\ gc_pc \in {"returned", "raised"}
    /\ IF gc_pc = "returned"
       THEN ch_ll' = buf /\ ir_pc' = "rr"
       ELSE ch_ll' = ch_ll /\ ir_pc' = "raised"
    /\ DropChannel
    /\ UNCHANGED <<preset_name, output_path, p, ch_rr, ch_lr, ch_rl>>
    /\ UNCHANGED calls
    /\ UNCHANGED <<lpfVars, wwVars>>

(* line 191 *)
IR_CopyRR ==
    /\ ir_pc = "rr"
    /\ ch_rr' = list(ch_ll)
    /\ ir_pc' = "lr"
    /\ UNCHANGED <<preset_name, output_path, p, ch_ll, ch_lr, ch_rl>>
    /\ UNCHANGED calls
    /\ UNCHANGED <<lpfVars, gcVars, wwVars>>

(* lines 194-200: generate_channel for L->R                                *)
IR_CallLR ==
    /\ ir_pc = "lr"
    /\ CallChannel(p.cross_gain, p.cross_reflections, TRUE,
                   p.cross_delay_ms, p.cross_lpf_freq)
    /\ ir_pc' = "lr_wait"
    /\ UNCHANGED <<preset_name, output_path, p, ch_ll, ch_rr, ch_lr, ch_rl>>
    /\ UNCHANGED <<lpf_calls, ww_calls>>
    /\ UNCHANGED <<lpfVars, wwVars>>

(* line 194: ch_lr = the returned buffer (an exception goes on up).        *)
IR_GotLR ==
    /\ ir_pc = "lr_wait"
    /\ gc_pc \in {"returned", "raised"}
    /\ IF gc_pc = "returned"
       THEN ch_lr' = buf /\ ir_pc' = "rl"
       ELSE ch_lr' = ch_lr /\ ir_pc' = "raised"
    /\ DropChannel
    /\ UNCHANGED <<preset_name, output_path, p, ch_ll, ch_rr, ch_rl>>
    /\ UNCHANGED calls
    /\ UNCHANGED <<lpfVars, wwVars>>

(* line 203 *)
IR_CopyRL ==
    /\ ir_pc = "rl"
    /\ ch_rl' = list(ch_lr)
    /\ ir_pc' = "write"
    /\ UNCHANGED <<preset_name, output_path, p, ch_ll, ch_rr, ch_lr>>
    /\ UNCHANGED calls
    /\ UNCHANGED <<lpfVars, gcVars, wwVars>>

(* line 205: the call of write_wav                                         *)
IR_CallWrite ==
    /\ ir_pc = "write"
    /\ WwIdle
    /\ ww_pc' = "begin"
    /\ filepath' = output_path
    /\ channels' = ChannelList(ch_ll, ch_rr, ch_lr, ch_rl)
    /\ ww_rate' = SAMPLE_RATE
    /\ ww_calls' = ww_calls + 1
    /\ ir_pc' = "write_wait"
    /\ UNCHANGED <<ww_i, ww_ch, handle, fs, nwrites>>
    /\ UNCHANGED <<preset_name, output_path, p, ch_ll, ch_rr, ch_lr, ch_rl>>
    /\ UNCHANGED <<lpf_calls, gc_calls>>
    /\ UNCHANGED <<lpfVars, gcVars>>

(* lines 207-213 after write_wav returned: the size is read and the        *)
(* summary printed; an exception of write_wav goes on up.                  *)
IR_Wrote ==
    /\ ir_pc = "write_wait"
    /\ ww_pc \in {"returned", "raised"}
    /\ ir_pc' = IF ww_pc = "returned" THEN "returned" ELSE "raised"
    /\ ww_pc' = "idle" /\ filepath' = "" /\ channels' = <<>> /\ ww_rate' = 0
    /\ ww_i' = 0 /\ ww_ch' = 0 /\ nwrites' = 0
    /\ UNCHANGED <<handle, fs>>
    /\ UNCHANGED <<preset_name, output_path, p, ch_ll, ch_rr, ch_lr, ch_rl>>
    /\ UNCHANGED calls
    /\ UNCHANGED <<lpfVars, gcVars>>

IrIdle ==
    /\ ir_pc = "idle" /\ preset_name = "" /\ output_path = "" /\ p = <<>>
    /\ ch_ll = <<>> /\ ch_rr = <<>> /\ ch_lr = <<>> /\ ch_rl = <<>>

---------------------------------------------------------------------------
(* The steps of each function, with the frames they leave alone.           *)

LpfRest == UNCHANGED <<entry, gcVars, wwVars, irVars, calls>>
GcRest  == UNCHANGED <<entry, lpfVars, wwVars, irVars, calls>>
GcLpfRest == UNCHANGED <<entry, wwVars, irVars, gc_calls, ww_calls>>
WwRest  == UNCHANGED <<entry, lpfVars, gcVars, irVars, calls>>
IrRest  == UNCHANGED entry

NextLpf ==
    \/ LPF_Begin /\ LpfRest
    \/ LPF_Step /\ LpfRest
    \/ LPF_Loop /\ LpfRest
    \/ LPF_Return /\ LpfRest

NextChannel ==
    \/ GC_Begin /\ GcRest
    \/ GC_Tap /\ GcRest
    \/ GC_SkipLpf /\ GcRest
    \/ GC_CallLpf /\ GcLpfRest
    \/ GC_LpfReturned /\ GcLpfRest
    \/ NextLpf

NextWav ==
    \/ WW_Open /\ WwRest
    \/ WW_OpenFail /\ WwRest
    \/ WW_Header /\ WwRest
    \/ WW_Loops /\ WwRest
    \/ WW_Sample /\ WwRest
    \/ WW_WriteFail /\ WwRest
    \/ WW_Return /\ WwRest

NextIR ==
    \/ IR_Check /\ IrRest
    \/ IR_CallLL /\ IrRest
    \/ IR_GotLL /\ IrRest
    \/ IR_CopyRR /\ IrRest
    \/ IR_CallLR /\ IrRest
    \/ IR_GotLR /\ IrRest
    \/ IR_CopyRL /\ IrRest
    \/ IR_CallWrite /\ IrRest
    \/ IR_Wrote /\ IrRest
    \/ NextChannel
    \/ NextWav

---------------------------------------------------------------------------
(* The file at the output path before the run: none, or an older file.     *)
OldFile == <<1, 2, 3>>
Paths == {"out.wav"}
InitFs == [Paths -> {Absent, OldFile}]

(* Entry point generate_ir: a preset name, known or not, and a path.       *)
PresetNames == {"light", "medium", "heavy", "ultra"}

InitIR ==
    /\ entry = "generate_ir"
    /\ LpfIdle /\ GcIdle /\ WwIdle
    /\ fs \in InitFs
    /\ ir_pc = "begin"
    /\ preset_name \in PresetNames
    /\ output_path \in Paths
    /\ p = <<>>
    /\ ch_ll = <<>> /\ ch_rr = <<>> /\ ch_lr = <<>> /\ ch_rl = <<>>
    /\ lpf_calls = 0 /\ gc_calls = 0 /\ ww_calls = 0

SpecIR == InitIR /\ [][NextIR]_vars

---------------------------------------------------------------------------
(* Entry point apply_lpf_to_impulse: a short list, a cutoff that is not 0  *)
(* (generate_channel, the only caller, passes none that is), the sample    *)
(* rate.  The caller may filter the returned list again.                   *)
MaxLen      == 3
MaxLpfCalls == 2
LpfValues   == {0, FxOne, -(FxOne \div 2)}
LpfCutoffs  == {3000, 2000}
Lists(n, V) == [0..(n - 1) -> V]

InitLpf ==
    /\ entry = "apply_lpf_to_impulse"
    /\ GcIdle /\ WwIdle /\ IrIdle
    /\ fs \in InitFs
    /\ lpf_pc = "begin"
    /\ \E n \in 0..MaxLen : samples \in Lists(n, LpfValues)
    /\ lpf_in = samples
    /\ cutoff_hz \in LpfCutoffs
    /\ sample_rate = SAMPLE_RATE
    /\ alpha = 0 /\ prev = 0 /\ lpf_i = 0
    /\ lpf_calls = 1 /\ gc_calls = 0 /\ ww_calls = 0

(* the caller passes the returned list to apply_lpf_to_impulse again       *)
LPF_CallAgain ==
    /\ entry = "apply_lpf_to_impulse"
    /\ lpf_pc = "returned"
    /\ lpf_calls < MaxLpfCalls
    /\ lpf_pc' = "begin"
    /\ lpf_in' = samples
    /\ lpf_calls' = lpf_calls + 1
    /\ UNCHANGED <<samples, cutoff_hz, sample_rate, alpha, prev, lpf_i>>
    /\ UNCHANGED <<entry, gcVars, wwVars, irVars, gc_calls, ww_calls>>

NextLpfUnit == NextLpf \/ LPF_CallAgain

SpecLpf == InitLpf /\ [][NextLpfUnit]_vars

---------------------------------------------------------------------------
(* Entry point generate_channel.  Delays reach the ends of the buffer:     *)
(* 80 ms is index IR_SAMPLES, -1 ms is index -48, -100 ms is below         *)
(* -IR_SAMPLES.                                                            *)
Gains       == {FxOne}
CrossDelays == {25, 30, 35, 8000, -100, -10000}
LpfFreqs    == {None, Some(0), Some(2000), Some(-2000)}
TapLists ==
    { <<>>,
      << <<0, Fx(120)>>, <<1, Fx(90)>>, <<150, Fx(60)>>, <<7999, Fx(40)>>,
         <<8000, Fx(25)>>, <<150, Fx(10)>> >>,
      << <<150, Fx(120)>>, <<-100, Fx(90)>>, <<-10000, Fx(60)>> >> }

InitChannel ==
    /\ entry = "generate_channel"
    /\ LpfIdle /\ WwIdle /\ IrIdle
    /\ fs \in [Paths -> {Absent}]
    /\ gc_pc = "begin"
    /\ gain \in Gains
    /\ reflections \in TapLists
    /\ is_cross \in BOOLEAN
    /\ cross_delay_ms \in CrossDelays
    /\ cross_lpf_freq \in LpfFreqs
    /\ buf = <<>> /\ gc_i = 0
    /\ lpf_calls = 0 /\ gc_calls = 1 /\ ww_calls = 0

SpecChannel == InitChannel /\ [][NextChannel]_vars

---------------------------------------------------------------------------
(* Entry point write_wav: up to MaxChannels channels of up to MaxSamples   *)
(* samples each; one value needs the rounding of pack_f and is negative.   *)
MaxChannels == 2
MaxSamples  == 2
WavValues   == {Fx(120), -(2^24 + 3)}
WavChannels ==
    UNION { [0..(n - 1) -> Lists(k, WavValues)] :
              <<n, k>> \in (1..MaxChannels) \X (0..MaxSamples) }

(* A list of so many channels that block_align does not fit 16 bits.       *)
WideChannels == Filled(2^14, Filled(0, 0))

InitWav ==
    /\ entry = "write_wav"
    /\ LpfIdle /\ GcIdle /\ IrIdle
    /\ fs \in InitFs
    /\ ww_pc = "begin"
    /\ filepath \in Paths
    /\ \/ channels \in WavChannels /\ ww_rate = SAMPLE_RATE
       \/ channels = WideChannels /\ ww_rate = 8000
    /\ ww_i = 0 /\ ww_ch = 0 /\ handle = "closed" /\ nwrites = 0
    /\ lpf_calls = 0 /\ gc_calls = 0 /\ ww_calls = 1

SpecWav == InitWav /\ [][NextWav]_vars

---------------------------------------------------------------------------
(* The properties.                                                         *)

Zeros == Filled(IR_SAMPLES, 0)

(* C1: for every built-in preset, in the channel list that generate_ir     *)
(* hands to write_wav, channel 1 (RR) equals channel 0 (LL) and channel 3  *)
(* (RL) equals channel 2 (LR) at every index 0..IR_SAMPLES-1.              *)
C1_MirroredChannels ==
    (entry = "generate_ir" /\ ww_pc = "begin") =>
        /\ DOMAIN channels = 0..(NUM_CHANNELS - 1)
        /\ \A c \in DOMAIN channels : DOMAIN channels[c] = 0..(IR_SAMPLES - 1)
        /\ \A k \in 0..(IR_SAMPLES - 1) :
              /\ channels[1][k] = channels[0][k]
              /\ channels[3][k] = channels[2][k]

(* C1 happens: write_wav is called for heavy, with a direct channel that   *)
(* holds the main impulse and its first reflection and a cross channel     *)
(* that differs from it.                                                    *)
C1_Witness ==
    /\ entry = "generate_ir" /\ ww_pc = "begin" /\ preset_name = "heavy"
    /\ channels[0][0] = FxOne
    /\ channels[1][57] = Fx(180)
    /\ channels[2][0] = 0
    /\ channels[3][16] > 0

(* The file that write_wav writes.                                         *)
File == fs[filepath]

(* The bytes of the header.                                                *)
HeaderBytes == 12 + 24 + 8

(* The unsigned 32-bit little-endian number at byte offset off.            *)
U32(f, off) ==
    f[off + 1] + 256 * f[off + 2] + 65536 * f[off + 3]
    + 16777216 * f[off + 4]

(* The samples written so far, as whole f.write calls.                     *)
SamplesWritten == nwrites - HeaderWrites

(* C2: the k-th sample written after the data header is                    *)
(* channels[k mod N][k div N] (as its 4-byte float), for every k written;  *)
(* when write_wav returns, all S*N samples are written.                    *)
C2_Interleaved ==
    (entry = "write_wav" /\ nwrites >= HeaderWrites) =>
        /\ Len(File) >= HeaderBytes + 4 * SamplesWritten
        /\ \A k \in 0..(SamplesWritten - 1) :
              SubSeq(File, HeaderBytes + 4 * k + 1, HeaderBytes + 4 * k + 4)
                = pack_f(channels[k % num_channels][k \div num_channels])
        /\ ww_pc = "returned" =>
              /\ SamplesWritten = num_samples * num_channels
              /\ Len(File) = HeaderBytes + 4 * SamplesWritten

(* C2 happens: two channels of two samples that differ are written.        *)
C2_Witness ==
    /\ entry = "write_wav" /\ ww_pc = "returned"
    /\ num_channels = 2 /\ num_samples = 2
    /\ channels[0][0] # channels[1][0]
    /\ channels[0][0] = channels[0][1]
    /\ SubSeq(File, HeaderBytes + 5, HeaderBytes + 8) = pack_f(channels[1][0])

(* C3: with a preset name that is not light, medium or heavy, generate_ir  *)
(* raises at once: no call of generate_channel or write_wav is made, the   *)
(* file is not opened and the output path keeps what it held.              *)
C3_UnknownPresetRejected ==
    /\ [](preset_name \notin {"light", "medium", "heavy"} =>
            /\ ir_pc \in {"begin", "raised"}
            /\ gc_calls = 0 /\ ww_calls = 0 /\ lpf_calls = 0
            /\ gc_pc = "idle" /\ ww_pc = "idle" /\ handle = "closed")
    /\ [][preset_name \notin {"light", "medium", "heavy"} =>
            /\ fs' = fs
            /\ ir_pc = "begin" => ir_pc' = "raised"]_vars

(* C3 happens: generate_ir("ultra", path) has raised, the older file is    *)
(* still there.                                                            *)
C3_Witness ==
    /\ entry = "generate_ir" /\ preset_name = "ultra" /\ ir_pc = "raised"
    /\ fs[output_path] = OldFile

(* C4: when write_wav returns, the data size field is S*N*4, the number of *)
(* payload bytes written, and the RIFF size field is the number of bytes   *)
(* of the file minus 8; the file has 44 + S*N*4 bytes.                     *)
C4_SizeFields ==
    (entry = "write_wav" /\ ww_pc = "returned") =>
        /\ Len(File) = HeaderBytes + num_samples * num_channels * 4
        /\ U32(File, HeaderBytes - 4) = num_samples * num_channels * 4
        /\ U32(File, HeaderBytes - 4) = Len(File) - HeaderBytes
        /\ U32(File, 4) = Len(File) - 8

(* C4 happens: a file with a payload of 16 bytes.                          *)
C4_Witness ==
    /\ entry = "write_wav" /\ ww_pc = "returned"
    /\ num_channels = 2 /\ num_samples = 2
    /\ Len(File) = 60 /\ U32(File, 4) = 52 /\ U32(File, 40) = 16

(* An index outside 0..IR_SAMPLES-1.                                       *)
OutOfBounds(idx) == idx < 0 \/ idx >= IR_SAMPLES

(* C5: a main impulse or a tap whose index is outside the buffer (too      *)
(* large, or negative) is omitted: the step changes no sample and raises   *)
(* nothing.                                                                *)
C5_OutOfBoundsOmitted ==
    [][/\ (gc_pc = "begin" /\ OutOfBounds(MainDelay)) =>
              (gc_pc' = "taps" /\ buf' = Zeros)
       /\ (gc_pc = "taps" /\ gc_i < Len(reflections)
              /\ OutOfBounds(TapDelay(gc_i))) =>
              (gc_pc' = "taps" /\ buf' = buf)]_vars

(* The sum of ref_gain * polarity over the taps at positions below j that  *)
(* map to index idx.                                                       *)
RECURSIVE TapSum(_, _)
TapSum(idx, j) ==
    IF j = 0 THEN 0
    ELSE TapSum(idx, j - 1)
         + (IF TapDelay(j - 1) = idx
            THEN reflections[j][2] * (IF (j - 1) % 2 = 0 THEN 1 ELSE -1)
            ELSE 0)

(* C6: before any filtering, the value at each index is the gain of the    *)
(* main impulse, if it lands there, plus the sum of ref_gain * polarity    *)
(* over the in-range taps mapped to that index.                            *)
C6_AdditiveTaps ==
    (gc_pc = "taps" /\ gc_i = Len(reflections)) =>
        \A idx \in 0..(IR_SAMPLES - 1) :
            buf[idx] = (IF MainDelay = idx THEN gain ELSE 0)
                       + TapSum(idx, Len(reflections))

(* round(ms * sample_rate / 1000) and its floor, for ms >= 0               *)
RoundIndex(ms) == (2 * ms * SAMPLE_RATE + 1000 * MsScale)
                      \div (2 * 1000 * MsScale)
FloorIndex(ms) == (ms * SAMPLE_RATE) \div (1000 * MsScale)

(* The buffer with the main impulse alone.                                 *)
ImpulseAt(idx) == [Zeros EXCEPT ![idx] = gain]

(* C7 as stated: the main impulse of a cross channel is at the index       *)
(* round(cross_delay_ms * sample_rate / 1000); of a direct channel at 0.   *)
C7_RoundedIndex ==
    (gc_pc = "taps" /\ gc_i = 0) =>
        /\ (is_cross /\ cross_delay_ms >= 0
              /\ RoundIndex(cross_delay_ms) < IR_SAMPLES) =>
              buf = ImpulseAt(RoundIndex(cross_delay_ms))
        /\ ~is_cross => buf = ImpulseAt(0)

(* C7 amended: the index is cross_delay_ms * sample_rate / 1000 cut to its *)
(* integer part: 12, 14 and 16 for the delays 0.25, 0.30 and 0.35 ms of    *)
(* the presets; a direct channel has the impulse at 0.                     *)
C7_TruncatedIndex ==
    (gc_pc = "taps" /\ gc_i = 0) =>
        /\ (is_cross /\ cross_delay_ms >= 0
              /\ FloorIndex(cross_delay_ms) < IR_SAMPLES) =>
              buf = ImpulseAt(FloorIndex(cross_delay_ms))
        /\ (is_cross /\ cross_delay_ms = 25) => buf = ImpulseAt(12)
        /\ (is_cross /\ cross_delay_ms = 30) => buf = ImpulseAt(14)
        /\ (is_cross /\ cross_delay_ms = 35) => buf = ImpulseAt(16)
        /\ ~is_cross => buf = ImpulseAt(0)

(* C7 happens: the preset delay 0.35 ms (16.8 samples) put the impulse at  *)
(* index 16 and left index 17 alone.                                       *)
C7_Witness ==
    /\ gc_pc = "taps" /\ gc_i = 0 /\ is_cross /\ cross_delay_ms = 35
    /\ buf[16] = gain /\ gain # 0 /\ buf[17] = 0

(* C8: the filter runs once, after the main impulse and all taps, when     *)
(* is_cross holds and cross_lpf_freq is positive, and never otherwise.     *)
C8_FilterOnlyWhenPositive ==
    /\ gc_pc = "lpf" =>
          /\ gc_i = Len(reflections)
          /\ is_cross /\ cross_lpf_freq # None /\ cross_lpf_freq[1] > 0
    /\ (entry = "generate_channel" /\ gc_pc = "returned") =>
          lpf_calls = IF is_cross /\ cross_lpf_freq # None
                                  /\ cross_lpf_freq[1] > 0
                      THEN 1 ELSE 0

(* y[n] = y[n-1] + alpha * (x[n] - y[n-1]), y[-1] = 0, x the list passed.  *)
RECURSIVE LpfY(_)
LpfY(n) ==
    IF n < 0 THEN 0
    ELSE LpfY(n - 1) + RoundDiv(alpha * (lpf_in[n] - LpfY(n - 1)), AlphaOne)

(* C10: every call starts with filter state 0 and goes through the list    *)
(* once in increasing order: the indices below lpf_i hold y, the others    *)
(* still x; zeros stay zeros and a unit impulse at 0 gives y[0] = alpha.   *)
C10_Recurrence ==
    (entry = "apply_lpf_to_impulse" /\ lpf_pc \in {"loop", "returned"}) =>
        /\ lpf_i \in 0..len(samples)
        /\ DOMAIN samples = DOMAIN lpf_in
        /\ prev = LpfY(lpf_i - 1)
        /\ \A n \in DOMAIN samples :
              samples[n] = IF n < lpf_i THEN LpfY(n) ELSE lpf_in[n]
        /\ lpf_pc = "returned" =>
              /\ lpf_i = len(samples)
              /\ (\A n \in DOMAIN lpf_in : lpf_in[n] = 0) =>
                     \A n \in DOMAIN samples : samples[n] = 0
              /\ (len(lpf_in) > 0 /\ lpf_in[0] = FxOne) =>
                     samples[0] * AlphaOne = alpha * FxOne

(* C10 happens: the second call on a list has returned, with a unit        *)
(* impulse smeared over the list.                                          *)
C10_Witness ==
    /\ entry = "apply_lpf_to_impulse" /\ lpf_pc = "returned"
    /\ lpf_calls = 2 /\ len(samples) = 3
    /\ lpf_in[0] * AlphaOne = alpha * FxOne
    /\ samples[0] > 0 /\ samples[0] < lpf_in[0] /\ samples[2] > 0

(* C9: the handle is open only during the write pass; once write_wav has   *)
(* returned or raised (an I/O error of open or of a write, a struct.error) *)
(* it is closed.                                                           *)
C9_HandleReleased ==
    /\ ww_pc \in {"idle", "begin", "returned", "raised"} => handle = "closed"
    /\ handle = "open" => ww_pc \in {"header", "data"}

(* C9 happens: a write of the payload failed after a part of its bytes,    *)
(* write_wav has raised.                                                   *)
C9_Witness ==
    /\ entry = "write_wav" /\ ww_pc = "raised" /\ handle = "closed"
    /\ nwrites > HeaderWrites
    /\ Len(File) > HeaderBytes + 4 * SamplesWritten

===========================================================================
